---- MODULE Spec2Model ----
(***************************************************************************)
(* Model of verification/verify_frontend.py: a one-shot harness that       *)
(* launches a headless browser, injects a mock of the native bridge        *)
(* (window.go.main.App, window.runtime) as an init script, relays the      *)
(* page's console to stdout, navigates to the frontend and writes a        *)
(* screenshot.                                                             *)
(*                                                                         *)
(* The driver (run, lines 3-53) is a straight-line program of seven calls. *)
(* Every call but page.on is a request to the browser engine whose         *)
(* response comes back on the same ordered channel as the page's console   *)
(* events; the synchronous client dispatches that channel only while the   *)
(* driver is blocked inside a call.  The target page (frontend/index.html) *)
(* is not part of verify_frontend.py; its behaviour is modelled from the   *)
(* specification (see the Page* actions).                                  *)
(***************************************************************************)
EXTENDS Integers, Sequences, FiniteSets, TLC

\* ---------------------------------------------------------------- bounds
MaxRuns == 2
MaxCalls == 3
MaxEvents == 1
MaxPageHeight == 2

\* Height of the page's viewport, in the unit MaxPageHeight is counted in
\* (browser.new_page() is called without a viewport argument).
ViewportHeight == 1

\* ------------------------------------------------------- the driver program
\* The calls of run(), in source order (lines 4, 5, 6, 37, 38, 52, 53).
ProgramInitAfterGoto ==
    <<"launch", "new_page", "on_console", "goto", "add_init_script",
      "screenshot", "close">>

ProgramConsoleAfterGoto ==
    <<"launch", "new_page", "add_init_script", "goto", "on_console",
      "screenshot", "close">>

Program ==
    <<"launch", "new_page", "add_init_script", "on_console", "goto",
      "screenshot", "close">>

\* ------------------------------------------------------------ the bridge mock
\* Names the init script defines on the page's global object (lines 7-34).
AppOps == {"GetConfig", "GetConfigWarnings", "GetHistoryRange",
           "RemoveDuplicateEndpoints"}

InitPayload == AppOps \cup {"EventsOn"}

DuplicateWarning ==
    "Duplicate endpoint ignored: EP2 (HTTP:http://test.com) in region Default"

\* The value GetConfig resolves to (lines 10-23).
Config ==
    [regions |->
        [Default |->
            [endpoints |->
                <<[name |-> "EP1", type |-> "HTTP", address |-> "http://test.com"]>>]],
     settings |->
        [test_interval_seconds |-> 300,
         data_retention_days |-> 90,
         notifications_enabled |-> TRUE]]

\* Argument lists the page may pass to a bridge call.
ArgLists == {<<>>, <<1, 2>>}

Called(history, op) == \E i \in 1..Len(history) : history[i].op = op

\* A mock whose maintenance operation really removes the duplicate, so that
\* the warning list is empty afterwards.
AppCallStateful(op, args, history) ==
    CASE op = "GetConfig" -> [ok |-> TRUE, value |-> Config]
      [] op = "GetConfigWarnings" ->
            [ok |-> TRUE,
             value |-> IF Called(history, "RemoveDuplicateEndpoints")
                         THEN <<>> ELSE <<DuplicateWarning>>]
      [] op = "GetHistoryRange" -> [ok |-> TRUE, value |-> <<>>]
      [] op = "RemoveDuplicateEndpoints" -> [ok |-> TRUE, value |-> ""]

\* A mock whose history query rejects a call made without a range, and whose
\* maintenance operation reports what it did.
AppCallChecked(op, args, history) ==
    CASE op = "GetConfig" -> [ok |-> TRUE, value |-> Config]
      [] op = "GetConfigWarnings" -> [ok |-> TRUE, value |-> <<DuplicateWarning>>]
      [] op = "GetHistoryRange" ->
            IF args = <<>> THEN [ok |-> FALSE, value |-> <<>>]
                           ELSE [ok |-> TRUE, value |-> <<>>]
      [] op = "RemoveDuplicateEndpoints" -> [ok |-> TRUE, value |-> "removed"]

\* The result of the call op(args) on window.go.main.App after the calls in
\* history: every mocked function is an arrow function returning a literal
\* (lines 10-28); none reads its arguments or any state.
AppCall(op, args, history) ==
    CASE op = "GetConfig" -> [ok |-> TRUE, value |-> Config]
      [] op = "GetConfigWarnings" -> [ok |-> TRUE, value |-> <<DuplicateWarning>>]
      [] op = "GetHistoryRange" -> [ok |-> TRUE, value |-> <<>>]
      [] op = "RemoveDuplicateEndpoints" -> [ok |-> TRUE, value |-> ""]

\* ------------------------------------------------------------ console relay
RelayBare(text) == text

\* The line the console observer prints for a message (line 37).
Relay(text) == "Console: " \o text

\* Texts a page script may log (at most MaxEvents of them in a run), and
\* the error reported when the frontend's bare module import cannot be
\* resolved.
PageTexts == {"info"}

ImportError == "Failed to resolve module specifier chart.js/auto"

\* ---------------------------------------------------------------- screenshot
ScreenshotPath == "verification/frontend_mock.png"

ScreenshotArgsFullPage == [path |-> ScreenshotPath, full_page |-> TRUE]

\* The keyword arguments of page.screenshot (line 52).
ScreenshotArgs == [path |-> ScreenshotPath]

Min(a, b) == IF a < b THEN a ELSE b

\* Rows of the page an image taken with these arguments covers: the whole
\* scrollable page with full_page set, the viewport otherwise.
Capture(args, height) ==
    IF "full_page" \in DOMAIN args /\ args["full_page"]
        THEN height
        ELSE Min(height, ViewportHeight)

NoImage == [run |-> 0, rows |-> 0, of |-> 0]

WriteFileAppend(files, path, img) ==
    [p \in DOMAIN files \cup {path} |->
        IF p = path
            THEN IF path \in DOMAIN files THEN Append(files[path], img) ELSE <<img>>
            ELSE files[p]]

\* The file system after the image is written to path: the file is created
\* or truncated, so it holds this image only.
WriteFile(files, path, img) ==
    [p \in DOMAIN files \cup {path} |-> IF p = path THEN <<img>> ELSE files[p]]

\* ------------------------------------------------------------------- state
VARIABLES
    run,            \* number of the current invocation of the script
    ip,             \* index in Program of the call run() is at
    status,         \* "ready" | "blocked" | "returned" | "raised" | "exited"
    called,         \* calls run() has issued in this run, in order
    failedAt,       \* the call whose failure run() saw, or "none"
    outcome,        \* how run() ended: "none" | "returned" | "raised"
    playwrightUp,   \* the sync_playwright() context is entered
    browserOpen,    \* a browser engine process exists
    pageOpen,       \* the page exists
    initScripts,    \* names defined by the init scripts registered on the page
    consoleHandler, \* the console observer is attached
    doc,            \* "blank" | "navigating" | "loading" | "loaded" | "error"
    navPending,     \* page.goto has not been answered yet
    window,         \* bridge names defined in the current document
    script,         \* frontend module script: "none" | "pending" | "halted" | "running"
    callLog,        \* bridge calls made by the page, with their results
    bridgeMiss,     \* a page script called a bridge name that was undefined
    emitted,        \* console texts the page has emitted, in order
    pipe,           \* messages from the engine not yet dispatched by the client
    stdout,         \* lines printed
    fs,             \* files on disk: path -> sequence of images in the file
    writes          \* files written in this run, and whether each replaced a file

vars == <<run, ip, status, called, failedAt, outcome, playwrightUp, browserOpen, pageOpen,
          initScripts, consoleHandler, doc, navPending, window, script, callLog,
          bridgeMiss, emitted, pipe, stdout, fs, writes>>

driverVars == <<ip, status, called, failedAt, outcome>>
pageVars == <<doc, navPending, window, script, callLog, bridgeMiss>>

ConsoleMsg(text) == [kind |-> "console", text |-> text, ok |-> TRUE, image |-> NoImage]
Response(ok, img) == [kind |-> "resp", text |-> "", ok |-> ok, image |-> img]

AtStep(step) == status = "ready" /\ ip <= Len(Program) /\ Program[ip] = step

Init ==
    /\ run = 1
    /\ ip = 1
    /\ status = "ready"
    /\ called = <<>>
    /\ failedAt = "none"
    /\ outcome = "none"
    /\ playwrightUp = TRUE
    /\ browserOpen = FALSE
    /\ pageOpen = FALSE
    /\ initScripts = {}
    /\ consoleHandler = FALSE
    /\ doc = "blank"
    /\ navPending = FALSE
    /\ window = {}
    /\ script = "none"
    /\ callLog = <<>>
    /\ bridgeMiss = FALSE
    /\ emitted = <<>>
    /\ pipe = <<>>
    /\ stdout = <<>>
    /\ fs = <<>>
    /\ writes = <<>>

\* Issue a call to the engine: the driver blocks until its response arrives.
Issue(step) ==
    /\ AtStep(step)
    /\ status' = "blocked"
    /\ called' = Append(called, step)
    /\ UNCHANGED <<ip, failedAt, outcome>>

\* line 4: browser = playwright.chromium.launch(headless=True)
Launch ==
    /\ Issue("launch")
    /\ \E ok \in BOOLEAN :
        /\ browserOpen' = ok
        /\ pipe' = Append(pipe, Response(ok, NoImage))
    /\ UNCHANGED <<run, playwrightUp, pageOpen, initScripts, consoleHandler,
                   pageVars, emitted, stdout, fs, writes>>

\* line 5: page = browser.new_page()
NewPage ==
    /\ Issue("new_page")
    /\ \E ok \in BOOLEAN :
        /\ pageOpen' = (ok /\ browserOpen)
        /\ pipe' = Append(pipe, Response(ok /\ browserOpen, NoImage))
    /\ UNCHANGED <<run, playwrightUp, browserOpen, initScripts, consoleHandler,
                   pageVars, emitted, stdout, fs, writes>>

\* lines 6-35: page.add_init_script(...). The script is registered on the
\* page and evaluated in every document created afterwards.
AddInitScript ==
    /\ Issue("add_init_script")
    /\ \E ok \in BOOLEAN :
        /\ initScripts' = IF ok /\ pageOpen THEN initScripts \cup InitPayload
                                            ELSE initScripts
        /\ pipe' = Append(pipe, Response(ok /\ pageOpen, NoImage))
    /\ UNCHANGED <<run, playwrightUp, browserOpen, pageOpen, consoleHandler,
                   pageVars, emitted, stdout, fs, writes>>

\* line 37: page.on("console", ...). Local to the client: no round trip.
OnConsole ==
    /\ AtStep("on_console")
    /\ called' = Append(called, "on_console")
    /\ \E ok \in BOOLEAN :
        IF ok
            THEN /\ consoleHandler' = TRUE
                 /\ ip' = ip + 1
                 /\ UNCHANGED <<status, failedAt, outcome>>
            ELSE /\ status' = "raised"
                 /\ failedAt' = "on_console"
                 /\ outcome' = "raised"
                 /\ UNCHANGED <<consoleHandler, ip>>
    /\ UNCHANGED <<run, playwrightUp, browserOpen, pageOpen, initScripts,
                   pageVars, emitted, pipe, stdout, fs, writes>>

\* line 38: page.goto(url). The navigation starts; the call returns when the
\* load event fires (LoadFires) or fails (NavFails).
Goto ==
    /\ Issue("goto")
    /\ IF pageOpen
        THEN /\ doc' = "navigating"
             /\ navPending' = TRUE
             /\ pipe' = pipe
        ELSE /\ doc' = doc
             /\ navPending' = FALSE
             /\ pipe' = Append(pipe, Response(FALSE, NoImage))
    /\ UNCHANGED <<run, playwrightUp, browserOpen, pageOpen, initScripts,
                   consoleHandler, window, script, callLog,
                   bridgeMiss, emitted, stdout, fs, writes>>

\* line 52: page.screenshot(path=...). The engine captures the image of the
\* page, whose scrollable height is whatever the page has laid out by then,
\* and returns it; the client writes the file when the response is dispatched.
Screenshot ==
    /\ Issue("screenshot")
    /\ \E ok \in BOOLEAN, height \in 1..MaxPageHeight :
        pipe' = Append(pipe,
                  IF ok /\ pageOpen
                    THEN Response(TRUE, [run |-> run,
                                         rows |-> Capture(ScreenshotArgs, height),
                                         of |-> height])
                    ELSE Response(FALSE, NoImage))
    /\ UNCHANGED <<run, playwrightUp, browserOpen, pageOpen, initScripts,
                   consoleHandler, pageVars, emitted, stdout, fs, writes>>

\* line 53: browser.close()
Close ==
    /\ Issue("close")
    /\ \E ok \in BOOLEAN :
        /\ browserOpen' = IF ok THEN FALSE ELSE browserOpen
        /\ pageOpen' = IF ok THEN FALSE ELSE pageOpen
        /\ pipe' = Append(pipe, Response(ok, NoImage))
    /\ UNCHANGED <<run, playwrightUp, initScripts, consoleHandler, pageVars,
                   emitted, stdout, fs, writes>>

\* ------------------------------------------------- the engine and the page
\* The server answers and the document is created: the registered init
\* scripts are evaluated in it before any script of the page runs.
DocumentCreated ==
    /\ doc = "navigating" /\ pageOpen
    /\ doc' = "loading"
    /\ window' = initScripts
    /\ script' = "pending"
    /\ UNCHANGED <<run, driverVars, playwrightUp, browserOpen, pageOpen,
                   initScripts, consoleHandler, navPending, callLog, bridgeMiss,
                   emitted, pipe, stdout, fs, writes>>

\* The navigation fails: the server is unreachable (no document), or the
\* engine's navigation timeout fires while the document is still loading.
NavFails ==
    /\ navPending /\ pageOpen
    /\ doc \in {"navigating", "loading"}
    /\ doc' = IF doc = "navigating" THEN "error" ELSE doc
    /\ navPending' = FALSE
    /\ pipe' = Append(pipe, Response(FALSE, NoImage))
    /\ UNCHANGED <<run, driverVars, playwrightUp, browserOpen, pageOpen,
                   initScripts, consoleHandler, window, script, callLog, bridgeMiss, emitted, stdout, fs, writes>>

\* The load event fires, after the module script has run or halted; a
\* pending page.goto is answered.
LoadFires ==
    /\ doc = "loading" /\ pageOpen
    /\ script \in {"halted", "running"}
    /\ doc' = "loaded"
    /\ navPending' = FALSE
    /\ pipe' = IF navPending THEN Append(pipe, Response(TRUE, NoImage)) ELSE pipe
    /\ UNCHANGED <<run, driverVars, playwrightUp, browserOpen, pageOpen,
                   initScripts, consoleHandler, window, script, callLog, bridgeMiss, emitted, stdout, fs, writes>>

\* The frontend's bare module import cannot be resolved: its module script
\* halts before any startup code and the error is reported on the console.
PageImportFails ==
    /\ doc = "loading" /\ pageOpen /\ script = "pending"
    /\ script' = "halted"
    /\ emitted' = Append(emitted, ImportError)
    /\ pipe' = Append(pipe, ConsoleMsg(ImportError))
    /\ UNCHANGED <<run, driverVars, playwrightUp, browserOpen, pageOpen,
                   initScripts, consoleHandler, doc, navPending, window,
                   callLog, bridgeMiss, stdout, fs, writes>>

\* The import resolves and the frontend's startup code begins to run.
PageStartup ==
    /\ doc = "loading" /\ pageOpen /\ script = "pending"
    /\ script' = "running"
    /\ UNCHANGED <<run, driverVars, playwrightUp, browserOpen, pageOpen,
                   initScripts, consoleHandler, doc, navPending, window,
                   callLog, bridgeMiss, emitted, pipe, stdout, fs,
                   writes>>

\* The frontend calls a bridge operation. A call of a name the document
\* does not define fails in the page; window.runtime.EventsOn registers
\* nothing and returns nothing (line 33), so it leaves no trace.
PageBridgeCall ==
    /\ script = "running" /\ pageOpen
    /\ Len(callLog) < MaxCalls
    /\ \E op \in InitPayload, args \in ArgLists :
        /\ op = "GetHistoryRange" \/ args = <<>>
        /\ IF op \notin window
            THEN /\ bridgeMiss' = TRUE
                 /\ UNCHANGED callLog
            ELSE /\ UNCHANGED bridgeMiss
                 /\ callLog' = IF op \in AppOps
                                 THEN Append(callLog,
                                        [op |-> op, args |-> args,
                                         result |-> AppCall(op, args, callLog)])
                                 ELSE callLog
    /\ UNCHANGED <<run, driverVars, playwrightUp, browserOpen, pageOpen,
                   initScripts, consoleHandler, doc, navPending, window, script,
                   emitted, pipe, stdout, fs, writes>>

\* A script of the page logs a line to the console.
PageConsole ==
    /\ doc \in {"loading", "loaded"} /\ pageOpen
    /\ Len(emitted) < MaxEvents
    /\ \E text \in PageTexts :
        /\ emitted' = Append(emitted, text)
        /\ pipe' = Append(pipe, ConsoleMsg(text))
    /\ UNCHANGED <<run, driverVars, playwrightUp, browserOpen, pageOpen,
                   initScripts, consoleHandler, pageVars, stdout, fs, writes>>

\* ------------------------------------------------------------ the client
\* The client dispatches a console event while the driver is blocked in a
\* call: the observer, if attached, prints it (line 37).
DispatchConsole ==
    /\ status = "blocked" /\ pipe # <<>>
    /\ Head(pipe).kind = "console"
    /\ pipe' = Tail(pipe)
    /\ stdout' = IF consoleHandler THEN Append(stdout, Relay(Head(pipe).text))
                                   ELSE stdout
    /\ UNCHANGED <<run, driverVars, playwrightUp, browserOpen, pageOpen,
                   initScripts, consoleHandler, pageVars, emitted, fs, writes>>

RaisesNever(msg, lines) == FALSE

RaisesOnConsoleError(msg, lines) ==
    \/ ~msg.ok
    \/ \E i \in 1..Len(lines) : lines[i] = Relay(ImportError)

\* Whether the call answered by msg raises in run(): run() has no
\* try/except and asserts nothing about what was printed.
Raises(msg, lines) == ~msg.ok

\* The response of the call the driver is blocked in arrives: the call
\* returns, or its error is raised out of run().
DispatchResponse ==
    /\ status = "blocked" /\ pipe # <<>>
    /\ Head(pipe).kind = "resp"
    /\ LET msg == Head(pipe)
           step == called[Len(called)]
       IN /\ pipe' = Tail(pipe)
          /\ failedAt' = IF msg.ok THEN failedAt ELSE step
          /\ IF Raises(msg, stdout)
                THEN /\ status' = "raised"
                     /\ outcome' = "raised"
                     /\ UNCHANGED <<ip, fs, writes>>
                ELSE /\ status' = "ready"
                     /\ ip' = ip + 1
                     /\ UNCHANGED outcome
                     /\ IF step = "screenshot" /\ msg.ok
                           THEN /\ fs' = WriteFile(fs, ScreenshotArgs.path, msg.image)
                                /\ writes' = Append(writes,
                                      [path |-> ScreenshotArgs.path,
                                       replaced |-> ScreenshotArgs.path \in DOMAIN fs])
                           ELSE UNCHANGED <<fs, writes>>
    /\ UNCHANGED <<run, called, playwrightUp, browserOpen, pageOpen, initScripts,
                   consoleHandler, pageVars, emitted, stdout>>

\* run() falls off its last statement (after line 53).
Return ==
    /\ status = "ready" /\ ip = Len(Program) + 1
    /\ status' = "returned"
    /\ outcome' = "returned"
    /\ UNCHANGED <<run, ip, called, failedAt, playwrightUp, browserOpen, pageOpen,
                   initScripts, consoleHandler, pageVars, emitted, pipe, stdout,
                   fs, writes>>

WithExitNoStop ==
    /\ status \in {"returned", "raised"}
    /\ status' = "exited"
    /\ playwrightUp' = FALSE
    /\ pipe' = <<>>
    /\ UNCHANGED <<run, ip, called, failedAt, outcome, browserOpen, pageOpen,
                   initScripts, consoleHandler, pageVars, emitted, stdout, fs,
                   writes>>

\* lines 55-56: the with block is left, by return or by exception. Leaving
\* the sync_playwright() context stops the driver process and the
\* connection to it: a browser still open is terminated with it and
\* undispatched messages are dropped.
WithExit ==
    /\ status \in {"returned", "raised"}
    /\ status' = "exited"
    /\ playwrightUp' = FALSE
    /\ browserOpen' = FALSE
    /\ pageOpen' = FALSE
    /\ pipe' = <<>>
    /\ UNCHANGED <<run, ip, called, failedAt, outcome, initScripts,
                   consoleHandler, pageVars, emitted, stdout, fs, writes>>

\* The script is invoked again: a fresh process, the same disk.
StartRun ==
    /\ status = "exited" /\ run < MaxRuns
    /\ run' = run + 1
    /\ ip' = 1
    /\ status' = "ready"
    /\ called' = <<>>
    /\ failedAt' = "none"
    /\ outcome' = "none"
    /\ playwrightUp' = TRUE
    /\ browserOpen' = FALSE
    /\ pageOpen' = FALSE
    /\ initScripts' = {}
    /\ consoleHandler' = FALSE
    /\ doc' = "blank"
    /\ navPending' = FALSE
    /\ window' = {}
    /\ script' = "none"
    /\ callLog' = <<>>
    /\ bridgeMiss' = FALSE
    /\ emitted' = <<>>
    /\ pipe' = <<>>
    /\ stdout' = <<>>
    /\ writes' = <<>>
    /\ UNCHANGED fs

Next ==
    \/ Launch \/ NewPage \/ AddInitScript \/ OnConsole \/ Goto
    \/ Screenshot \/ Close
    \/ DocumentCreated \/ NavFails \/ LoadFires
    \/ PageImportFails \/ PageStartup \/ PageBridgeCall \/ PageConsole
    \/ DispatchConsole \/ DispatchResponse \/ Return \/ WithExit \/ StartRun

Spec == Init /\ [][Next]_vars

\* ------------------------------------------------------------- properties
IsPrefix(s, t) == Len(s) <= Len(t) /\ \A i \in 1..Len(s) : s[i] = t[i]

Has(seq, x) == \E i \in 1..Len(seq) : seq[i] = x

Index(seq, x) == IF Has(seq, x) THEN CHOOSE i \in 1..Len(seq) : seq[i] = x ELSE 0

Lines(texts) == [i \in 1..Len(texts) |-> "Console: " \o texts[i]]

PendingConsole == Len(SelectSeq(pipe, LAMBDA m : m.kind = "console"))

\* C1: once a run has terminated, by normal completion or by a failure raised
\* in any call, no browser engine and no page is left open.
C1_BrowserReleased ==
    status = "exited" => ~browserOpen /\ ~pageOpen

\* A run that raised in the screenshot call, with browser and page open, has
\* terminated.
C1_Witness ==
    status = "exited" /\ outcome = "raised" /\ failedAt = "screenshot"

\* C2: the whole bridge payload is registered before the navigation starts,
\* every document a page script runs in has all bridge names defined, and no
\* bridge call of a page script ever found its name undefined.
C2_BridgeBeforeScripts ==
    /\ ~bridgeMiss
    /\ script # "none" => InitPayload \subseteq window
    /\ Has(called, "goto") => InitPayload \subseteq initScripts

\* The frontend's startup code has called the bridge while the document was
\* still loading.
C2_Witness ==
    script = "running" /\ doc = "loading" /\ Len(callLog) >= 1

\* C3 as amended: at most one file exists, at the fixed path, and it holds
\* one image; a run writes it at most once; a run that returns normally has
\* written it exactly once and the file holds that run's image only.
C3_OneFileOverwritten ==
    /\ DOMAIN fs \subseteq {"verification/frontend_mock.png"}
    /\ \A p \in DOMAIN fs : Len(fs[p]) = 1
    /\ Len(writes) <= 1
    /\ outcome = "returned" =>
          /\ Len(writes) = 1
          /\ writes[1].path = "verification/frontend_mock.png"
          /\ fs["verification/frontend_mock.png"][1].run = run

\* A repeated run has returned after replacing the file of an earlier run.
C3_Witness ==
    /\ outcome = "returned" /\ run > 1
    /\ Len(writes) = 1 /\ writes[1].replaced

\* C3 as stated: every run, however it ends, has produced the file.
C3_Original ==
    status = "exited" =>
        /\ Len(writes) = 1
        /\ "verification/frontend_mock.png" \in DOMAIN fs

\* C4: a failure seen by run() in any call ends run() with that failure
\* raised; the failing call is the last one issued, and unless it was the
\* final close no screenshot file has been written in the run.
C4_FailurePropagates ==
    failedAt # "none" =>
        /\ status \in {"raised", "exited"}
        /\ outcome = "raised"
        /\ called[Len(called)] = failedAt
        /\ failedAt # "close" => writes = <<>>

\* A navigation failure has been raised and the run has terminated.
C4_Witness ==
    failedAt = "goto" /\ status = "exited"

\* C5: in a terminated run in which no call to the engine failed, the
\* document loaded and the frontend's module script halted on its import,
\* run() returned normally, the import error was printed, and the screenshot
\* of this run was written by a call issued before the close call.
C5_NegativeScenario ==
    (status = "exited" /\ failedAt = "none" /\ doc = "loaded" /\ script = "halted") =>
        /\ outcome = "returned"
        /\ Has(stdout, "Console: " \o ImportError)
        /\ Len(writes) = 1
        /\ fs["verification/frontend_mock.png"][1].run = run
        /\ 0 < Index(called, "screenshot")
        /\ Index(called, "screenshot") < Index(called, "close")

\* A run in the negative scenario has terminated.
C5_Witness ==
    /\ status = "exited" /\ failedAt = "none"
    /\ doc = "loaded" /\ script = "halted"
    /\ Len(stdout) >= 1

\* C6 as amended: the printed lines are, in order and each once, the
\* prefixed texts of an initial part of what the page emitted; while the
\* connection is up every emitted event is either printed or still waiting
\* in the channel; and when run() returned normally every emitted event has
\* been printed.
C6_RelayInOrder ==
    /\ IsPrefix(stdout, Lines(emitted))
    /\ playwrightUp => Len(stdout) + PendingConsole = Len(emitted)
    /\ outcome = "returned" => stdout = Lines(emitted)

\* Two different console events were relayed in a run that returned.
C6_Witness ==
    /\ outcome = "returned"
    /\ Len(stdout) = 2 /\ stdout[1] # stdout[2]

\* C6 as stated: when the run has terminated, every event the page emitted
\* has been printed.
C6_Original ==
    status = "exited" => stdout = Lines(emitted)

\* C7: within a run, any two calls of the same mocked operation, whatever
\* their arguments and whatever calls came before each, returned the same
\* result, and no call failed.
C7_Idempotent ==
    /\ \A i \in 1..Len(callLog) : callLog[i].result.ok
    /\ \A i, j \in 1..Len(callLog) :
          callLog[i].op = callLog[j].op => callLog[i].result = callLog[j].result

\* GetHistoryRange was called twice with different arguments, another
\* operation in between.
C7_Witness ==
    /\ Len(callLog) = 3
    /\ callLog[1].op = "GetHistoryRange" /\ callLog[3].op = "GetHistoryRange"
    /\ callLog[1].args # callLog[3].args
    /\ callLog[2].op # "GetHistoryRange"

\* C8: RemoveDuplicateEndpoints returns the empty string; a read operation
\* called before and after it returns the same value both times; and the
\* warnings read after it still hold the duplicate-endpoint warning.
C8_RemoveDuplicatesNoEffect ==
    /\ \A j \in 1..Len(callLog) :
          callLog[j].op = "RemoveDuplicateEndpoints" =>
              callLog[j].result = [ok |-> TRUE, value |-> ""]
    /\ \A i, j, k \in 1..Len(callLog) :
          (/\ i < j /\ j < k
           /\ callLog[j].op = "RemoveDuplicateEndpoints"
           /\ callLog[i].op = callLog[k].op
           /\ callLog[i].op # "RemoveDuplicateEndpoints")
              => callLog[i].result = callLog[k].result
    /\ \A j, k \in 1..Len(callLog) :
          (/\ j < k
           /\ callLog[j].op = "RemoveDuplicateEndpoints"
           /\ callLog[k].op = "GetConfigWarnings")
              => Has(callLog[k].result.value,
                     "Duplicate endpoint ignored: EP2 (HTTP:http://test.com) in region Default")

\* The warnings were read before and after a RemoveDuplicateEndpoints call.
C8_Witness ==
    /\ Len(callLog) = 3
    /\ callLog[1].op = "GetConfigWarnings"
    /\ callLog[2].op = "RemoveDuplicateEndpoints"
    /\ callLog[3].op = "GetConfigWarnings"

\* C9 as amended: the screenshot file holds one image, which covers the
\* viewport (or the whole page when the page is shorter than the viewport),
\* and a run that returned has replaced whatever the file held with its own
\* image.
C9_ViewportShot ==
    /\ \A p \in DOMAIN fs : \A i \in 1..Len(fs[p]) :
          fs[p][i].rows = IF fs[p][i].of < ViewportHeight THEN fs[p][i].of
                                                         ELSE ViewportHeight
    /\ outcome = "returned" =>
          /\ "verification/frontend_mock.png" \in DOMAIN fs
          /\ Len(fs["verification/frontend_mock.png"]) = 1
          /\ fs["verification/frontend_mock.png"][1].run = run

\* A page taller than the viewport was captured over an earlier file.
C9_Witness ==
    /\ Len(writes) = 1 /\ writes[1].replaced
    /\ fs["verification/frontend_mock.png"][1].run = run
    /\ fs["verification/frontend_mock.png"][1].of > ViewportHeight

\* C9 as stated: every image written covers the whole scrollable page.
C9_Original ==
    \A p \in DOMAIN fs : \A i \in 1..Len(fs[p]) : fs[p][i].rows = fs[p][i].of

\* C10 as amended: the calls of a run are issued in the order launch, new
\* page, init script, console observer, navigation, screenshot, close; the
\* observer is attached when the navigation starts; the screenshot call is
\* issued only after the navigation call returned with the document loaded;
\* the close call is issued only after the screenshot file is written.
C10_StepOrder ==
    /\ IsPrefix(called, <<"launch", "new_page", "add_init_script", "on_console",
                          "goto", "screenshot", "close">>)
    /\ Has(called, "goto") => consoleHandler
    /\ Has(called, "screenshot") => doc = "loaded" /\ ~navPending
    /\ Has(called, "close") => Len(writes) = 1

\* A run has gone through all its calls and returned.
C10_Witness ==
    outcome = "returned" /\ Len(called) = 7 /\ status = "exited"

\* C10 as stated: a wait for render lies between the navigation and the
\* screenshot.
C10_Original ==
    IsPrefix(called, <<"launch", "new_page", "add_init_script", "on_console",
                       "goto", "wait_for_render", "screenshot", "close">>)
====
